---- MODULE Spec2Model ----
(***************************************************************************)
(* go-csv: a dialect-driven CSV Reader and Writer.                         *)
(*                                                                         *)
(* A string is a sequence of bytes, each byte a short TLA+ string.  Every   *)
(* character of the model encodes to one byte, named by the character,     *)
(* but the character Wide, which encodes to two.  The Reader and the       *)
(* Writer share one bytes.Buffer b, as in the repository's tests: the      *)
(* Writer's bufio.Writer delivers to b and the Reader's bufio.Reader       *)
(* consumes b.                                                             *)
(***************************************************************************)
EXTENDS Integers, Sequences, FiniteSets, TLC

VARIABLES
    cfg,     \* the Dialect value the caller passed to the constructors
    wopts,   \* Writer.opts
    ropts,   \* Reader.opts
    w,       \* Writer.w: the bytes buffered in the bufio.Writer
    b,       \* the bytes.Buffer under both: every byte delivered so far
    pos,     \* how many bytes of b the Reader has consumed
    wrote,   \* the records the caller has passed to Write / WriteAll
    call,    \* the last call and what it returned
    werr,    \* Writer.w's sticky error: the first error a delivery returned
    sink,    \* how the io.Writer under the Writer behaves: the bytes it still
             \* accepts before a write fails, whether a write has failed, and
             \* how many bytes the failed write refused
    u        \* an unReader over the text in b: u.b is its buffer of bytes put
             \* back, u.r how many bytes of b its bufio.Reader has consumed

vars == <<cfg, wopts, ropts, w, b, pos, wrote, call, werr, sink, u>>

---------------------------------------------------------------------------
(* Bounds of the model.                                                    *)

MaxLen == 4        \* longest input text enumerated for the Reader
MaxRecords == 2    \* most records handed to a Writer that is used alone
MaxRoundTrip == 1  \* most records handed to a Writer whose output is read back

---------------------------------------------------------------------------
(* Characters and strings.                                                 *)

NUL == "NUL"                      \* the rune 0: an unset rune field
EmptyString == <<>>
CRLF == <<"\r", "\n">>
Digits == {"0", "1"}

Min(x, y) == IF x < y THEN x ELSE y

Last(s) == s[Len(s)]

\* strings.Contains(s, sub)
Contains(s, sub) ==
    \E i \in 0..Len(s) : i + Len(sub) <= Len(s) /\ SubSeq(s, i + 1, i + Len(sub)) = sub

\* strings.ContainsRune(s, c)
ContainsRune(s, c) == \E i \in 1..Len(s) : s[i] = c

\* A character of two UTF-8 bytes (a letter with an accent, say), and the two
Wide == "W"
WideLead == "W1"
WideCont == "W2"

\* utf8.RuneError, the character a byte that starts no encoding decodes to
RuneError == "RuneError"

\* The three bytes that encode utf8.RuneError
Replacement == <<"R1", "R2", "R3">>

Range(s) == {s[i] : i \in 1..Len(s)}

\* utf8.RuneLen(c)
RuneLen(c) == IF c = Wide THEN 2 ELSE IF c = RuneError THEN 3 ELSE 1

\* string(c): the UTF-8 encoding of the character c
Utf8(c) ==
    IF c = Wide THEN <<WideLead, WideCont>>
    ELSE IF c = RuneError THEN Replacement
    ELSE <<c>>

\* utf8.DecodeRuneInString(s), for s not empty
DecodeRune(s) ==
    IF Len(s) >= 2 /\ s[1] = WideLead /\ s[2] = WideCont
    THEN [rune |-> Wide, size |-> 2]
    ELSE IF Len(s) >= 3 /\ SubSeq(s, 1, 3) = Replacement
    THEN [rune |-> RuneError, size |-> 3]
    ELSE IF s[1] \in {WideLead, WideCont} \cup Range(Replacement)
    THEN [rune |-> RuneError, size |-> 1]
    ELSE [rune |-> s[1], size |-> 1]

\* utf8.DecodeLastRuneInString(s), for s not empty
DecodeLastRuneInString(s) ==
    IF Len(s) >= 2 /\ s[Len(s) - 1] = WideLead /\ s[Len(s)] = WideCont
    THEN [rune |-> Wide, size |-> 2]
    ELSE IF Len(s) >= 3 /\ SubSeq(s, Len(s) - 2, Len(s)) = Replacement
    THEN [rune |-> RuneError, size |-> 3]
    ELSE IF s[Len(s)] \in {WideLead, WideCont} \cup Range(Replacement)
    THEN [rune |-> RuneError, size |-> 1]
    ELSE [rune |-> s[Len(s)], size |-> 1]

RECURSIVE Flatten(_)
Flatten(ss) == IF ss = <<>> THEN <<>> ELSE Head(ss) \o Flatten(Tail(ss))

---------------------------------------------------------------------------
(* The dialect (src/reader_test.go:393-498).                               *)

QuoteDefault == 0
QuoteAll == 1
QuoteMinimal == 2
QuoteNonNumeric == 3
QuoteNonNumericNonEmpty == 4
QuoteNone == 5

DoubleQuoteDefault == 0
DoDoubleQuote == 1
NoDoubleQuote == 2

DefaultDelimiter == ","
DefaultQuoting == QuoteMinimal
DefaultDoubleQuote == DoDoubleQuote
DefaultEscapeChar == "\\"
DefaultQuoteChar == "\""
DefaultLineTerminator == <<"\n">>
DefaultComment == "#"

Dialect(del, quoting, dq, esc, quote, lt, comment) ==
    [Delimiter |-> del, Quoting |-> quoting, DoubleQuote |-> dq, EscapeChar |-> esc,
     QuoteChar |-> quote, LineTerminator |-> lt, Comment |-> comment]

\* A mutant of setDefaults: the delimiter default of the older dialect (a space),
\* and the quoting mode forced to the default whatever the caller chose.
setDefaultsOld(wo) ==
    [wo EXCEPT
        !.Delimiter = IF wo.Delimiter = NUL THEN " " ELSE wo.Delimiter,
        !.Quoting = DefaultQuoting,
        !.LineTerminator = IF wo.LineTerminator = EmptyString
                           THEN DefaultLineTerminator ELSE wo.LineTerminator,
        !.DoubleQuote = IF wo.DoubleQuote = DoubleQuoteDefault
                        THEN DefaultDoubleQuote ELSE wo.DoubleQuote,
        !.QuoteChar = IF wo.QuoteChar = NUL THEN DefaultQuoteChar ELSE wo.QuoteChar,
        !.EscapeChar = IF wo.EscapeChar = NUL THEN DefaultEscapeChar ELSE wo.EscapeChar,
        !.Comment = IF wo.Comment = NUL THEN DefaultComment ELSE wo.Comment]

\* Dialect.setDefaults
setDefaults(wo) ==
    [wo EXCEPT
        !.Delimiter = IF wo.Delimiter = NUL THEN DefaultDelimiter ELSE wo.Delimiter,
        !.Quoting = IF wo.Quoting = QuoteDefault THEN DefaultQuoting ELSE wo.Quoting,
        !.LineTerminator = IF wo.LineTerminator = EmptyString
                           THEN DefaultLineTerminator ELSE wo.LineTerminator,
        !.DoubleQuote = IF wo.DoubleQuote = DoubleQuoteDefault
                        THEN DefaultDoubleQuote ELSE wo.DoubleQuote,
        !.QuoteChar = IF wo.QuoteChar = NUL THEN DefaultQuoteChar ELSE wo.QuoteChar,
        !.EscapeChar = IF wo.EscapeChar = NUL THEN DefaultEscapeChar ELSE wo.EscapeChar,
        !.Comment = IF wo.Comment = NUL THEN DefaultComment ELSE wo.Comment]

\* isNumeric
isNumeric(s) ==
    IF Len(s) = 0 THEN FALSE
    ELSE \A i \in 1..Len(s) : ~(s[i] # "." /\ s[i] \notin Digits)

\* isEmpty
isEmpty(s) == Len(s) = 0

---------------------------------------------------------------------------
(* bufio.Reader over the rest r of the source (src/dialect/flag.go:164).   *)
(* Errors are "nil", "EOF" (io.EOF), "ErrBufferFull", "ErrIO" (the error   *)
(* of a failing io.Reader) and "panic".  A source that fails after its     *)
(* last byte ends with ErrIO, and fails again whenever it is read there;   *)
(* any other source ends with io.EOF.                                      *)

BufSize == 4096    \* bufio.NewReader's buffer: Peek cannot see further

ErrIO == "ErrIO"

\* The bytes the source still delivers
Avail(r) == IF r # <<>> /\ Last(r) = ErrIO THEN Len(r) - 1 ELSE Len(r)

\* The error the source returns after them
SrcErr(r) == IF r # <<>> /\ Last(r) = ErrIO THEN ErrIO ELSE "EOF"

\* bufio.Reader.Peek(n): the next n bytes; fewer, with an error, when the
\* source ends or fails first, or n exceeds the buffer.
Peek(r, n) ==
    IF n > BufSize
    THEN [bytes |-> SubSeq(r, 1, Min(Avail(r), BufSize)), err |-> "ErrBufferFull"]
    ELSE IF Avail(r) < n THEN [bytes |-> SubSeq(r, 1, Avail(r)), err |-> SrcErr(r)]
    ELSE [bytes |-> SubSeq(r, 1, n), err |-> "nil"]

\* bufio.Reader.Discard(n), called only for bytes a Peek has shown
Discard(r, n) == SubSeq(r, n + 1, Len(r))

\* bufio.Reader.ReadRune
ReadRune(r) ==
    IF Avail(r) = 0 THEN [char |-> NUL, err |-> SrcErr(r), r |-> r]
    ELSE IF Avail(r) >= 2 /\ r[1] = WideLead /\ r[2] = WideCont
    THEN [char |-> Wide, err |-> "nil", r |-> SubSeq(r, 3, Len(r))]
    ELSE IF Avail(r) >= 3 /\ SubSeq(r, 1, 3) = Replacement
    THEN [char |-> RuneError, err |-> "nil", r |-> SubSeq(r, 4, Len(r))]
    ELSE IF Head(r) \in {WideLead, WideCont} \cup Range(Replacement)
    THEN [char |-> RuneError, err |-> "nil", r |-> Tail(r)]
    ELSE [char |-> Head(r), err |-> "nil", r |-> Tail(r)]

\* bytes.Buffer.Truncate(n): keep the first n bytes
Truncate(s, n) == SubSeq(s, 1, n)

---------------------------------------------------------------------------
(* unReader: a bufio.Reader that supports putting characters back.  un.b   *)
(* is its buffer, un.r the bytes its bufio.Reader has still to read.       *)

\* NewUnReader, with the count of bytes consumed for the bufio.Reader
NewUnReader == [b |-> <<>>, r |-> 0]

\* unReader.ReadRune
unReaderReadRune(un) ==
    IF Len(un.b) > 0
    THEN LET c == DecodeRune(un.b)
         IN  [char |-> c.rune, err |-> "nil",
              u |-> [un EXCEPT !.b = SubSeq(un.b, c.size + 1, Len(un.b))]]
    ELSE LET rr == ReadRune(un.r)
         IN  [char |-> rr.char, err |-> rr.err, u |-> [un EXCEPT !.r = rr.r]]

\* unReader.UnreadRune
UnreadRune(un, c) == [un EXCEPT !.b = Utf8(c) \o un.b]

\* strings.HasPrefix(s, prefix)
HasPrefix(s, prefix) == Len(prefix) <= Len(s) /\ SubSeq(s, 1, Len(prefix)) = prefix

\* A mutant of unReader.NextIsString: a negative answer empties the buffer
RECURSIVE NextIsStringEat(_, _)
NextIsStringEat(un, s) ==
    IF Len(un.b) < Len(s)
    THEN LET rr == ReadRune(un.r)
         IN  IF rr.err # "nil" THEN [ok |-> FALSE, err |-> rr.err, u |-> un]
             ELSE NextIsStringEat([b |-> un.b \o Utf8(rr.char), r |-> rr.r], s)
    ELSE [ok |-> HasPrefix(un.b, s), err |-> "nil",
          u |-> IF HasPrefix(un.b, s) THEN un ELSE [un EXCEPT !.b = <<>>]]

\* unReader.NextIsString
RECURSIVE NextIsString(_, _)
NextIsString(un, s) ==
    IF Len(un.b) < Len(s)
    THEN LET rr == ReadRune(un.r)
         IN  IF rr.err # "nil" THEN [ok |-> FALSE, err |-> rr.err, u |-> un]
             ELSE NextIsString([b |-> un.b \o Utf8(rr.char), r |-> rr.r], s)
    ELSE [ok |-> HasPrefix(un.b, s), err |-> "nil", u |-> un]

---------------------------------------------------------------------------
(* The Reader (src/dialect/flag.go:128-399).  Every operator takes the     *)
(* resolved dialect d and the rest r of the source, and returns what the   *)
(* method returns together with the rest of the source it leaves.          *)

Space == {" ", "\t"}

\* Reader.nextIsBytes
nextIsBytes(r, bs) ==
    LET nextBytes == Peek(r, Len(bs))
    IN  [ok |-> nextBytes.bytes = bs, err |-> nextBytes.err]

\* Reader.nextIsLineTerminator
nextIsLineTerminator(d, r) == nextIsBytes(r, d.LineTerminator)

\* Reader.nextIsDelimiter
nextIsDelimiter(d, r) == nextIsBytes(r, Utf8(d.Delimiter))

\* Reader.skipLineTerminator
skipLineTerminator(d, r) == Discard(r, Len(d.LineTerminator))

\* Reader.skipDelimiter
skipDelimiter(d, r) == Discard(r, Len(Utf8(d.Delimiter)))

\* The value of n at which skipComments next leaves its `n += 1; continue`
\* branch, having entered it at n: the first index after n that Peek cannot
\* show or that holds no space or tab.  Every iteration in between peeks
\* successfully at a space and only increments n.
NextNonSpace(r, n) ==
    LET top == Min(Avail(r), BufSize)
        stops == {m \in (n + 1)..top : r[m] \notin Space}
    IN  IF stops = {} THEN top + 1
        ELSE CHOOSE m \in stops : \A k \in stops : m <= k

\* Reader.skipComments: the loop, at lookahead n, inside a comment or not
RECURSIVE skipCommentsLoop(_, _, _, _)
skipCommentsLoop(d, r, n, isComment) ==
    LET nextBytes == Peek(r, n)
    IN  IF nextBytes.err # "nil" THEN [err |-> nextBytes.err, r |-> r]
        ELSE IF nextBytes.bytes[n] \in Space
        THEN IF ~isComment
             THEN skipCommentsLoop(d, r, NextNonSpace(r, n), isComment)
             ELSE [err |-> "nil", r |-> r]
        ELSE IF nextBytes.bytes[n] = d.Comment
        THEN skipCommentsLoop(d, Discard(r, n), 1, TRUE)
        ELSE IF ~isComment THEN [err |-> "nil", r |-> r]
        ELSE IF nextIsLineTerminator(d, r).ok
        THEN skipCommentsLoop(d, skipLineTerminator(d, r), 1, FALSE)
        ELSE skipCommentsLoop(d, Discard(r, n), 1, isComment)

\* Reader.skipComments
skipComments(d, r) == skipCommentsLoop(d, r, 1, FALSE)

\* A mutant of readUnquotedField's loop: the scan stops where the first
\* character of the line terminator is next
RECURSIVE readUnquotedLoopFirst(_, _, _)
readUnquotedLoopFirst(d, r, s) ==
    LET rr == ReadRune(r)
    IN  IF rr.err # "nil" \/ rr.char = d.Delimiter
        THEN [field |-> s, err |-> rr.err, r |-> r]
        ELSE IF nextIsBytes(rr.r, <<Head(d.LineTerminator)>>).ok
        THEN [field |-> s \o Utf8(rr.char), err |-> "nil", r |-> rr.r]
        ELSE readUnquotedLoopFirst(d, rr.r, s \o Utf8(rr.char))

\* Reader.readUnquotedField: the loop, with s the field read so far
RECURSIVE readUnquotedLoop(_, _, _)
readUnquotedLoop(d, r, s) ==
    LET rr == ReadRune(r)
    IN  IF rr.err # "nil" \/ rr.char = d.Delimiter
        THEN \* UnreadRune puts a delimiter back; after a failed read it does nothing
             [field |-> s, err |-> rr.err, r |-> r]
        ELSE IF nextIsLineTerminator(d, rr.r).ok
        THEN [field |-> s \o Utf8(rr.char), err |-> "nil", r |-> rr.r]
        ELSE readUnquotedLoop(d, rr.r, s \o Utf8(rr.char))

\* Reader.readUnquotedField
readUnquotedField(d, r) == readUnquotedLoop(d, r, EmptyString)

\* A mutant of readQuotedField's loop: where quotes are doubled, the character
\* after the closing quote is not put back
RECURSIVE readQuotedLoopEat(_, _, _)
readQuotedLoopEat(d, r, s) ==
    LET rr == ReadRune(r)
    IN  IF rr.err # "nil" THEN [field |-> s, err |-> rr.err, r |-> rr.r]
        ELSE IF rr.char # d.QuoteChar THEN readQuotedLoopEat(d, rr.r, s \o Utf8(rr.char))
        ELSE IF d.DoubleQuote = DoDoubleQuote
        THEN LET r2 == ReadRune(rr.r)
             IN  IF r2.err # "nil" THEN [field |-> s, err |-> r2.err, r |-> r2.r]
                 ELSE IF r2.char = d.QuoteChar
                 THEN readQuotedLoopEat(d, r2.r, s \o Utf8(r2.char))
                 ELSE [field |-> s, err |-> "nil", r |-> r2.r]
        ELSE IF Len(s) = 0 THEN [field |-> s, err |-> "nil", r |-> rr.r]
        ELSE IF DecodeLastRuneInString(s).rune = d.EscapeChar
        THEN readQuotedLoopEat(d, rr.r, Truncate(s, Len(s) - 1) \o Utf8(rr.char))
        ELSE [field |-> s, err |-> "nil", r |-> rr.r]

\* Reader.readQuotedField: the loop after the opening quote
RECURSIVE readQuotedLoop(_, _, _)
readQuotedLoop(d, r, s) ==
    LET rr == ReadRune(r)
    IN  IF rr.err # "nil" THEN [field |-> s, err |-> rr.err, r |-> rr.r]
        ELSE IF rr.char # d.QuoteChar THEN readQuotedLoop(d, rr.r, s \o Utf8(rr.char))
        ELSE IF d.DoubleQuote = DoDoubleQuote
        THEN LET r2 == ReadRune(rr.r)
             IN  IF r2.err # "nil" THEN [field |-> s, err |-> r2.err, r |-> r2.r]
                 ELSE IF r2.char = d.QuoteChar
                 THEN readQuotedLoop(d, r2.r, s \o Utf8(r2.char))
                 ELSE [field |-> s, err |-> "nil", r |-> rr.r]
        ELSE IF d.DoubleQuote = NoDoubleQuote
        THEN IF Len(s) = 0 THEN [field |-> s, err |-> "nil", r |-> rr.r]
             ELSE IF DecodeLastRuneInString(s) = [rune |-> RuneError, size |-> 1]
             THEN [field |-> s, err |-> "panic", r |-> rr.r]
             ELSE IF DecodeLastRuneInString(s).rune = d.EscapeChar
             THEN \* Replace previous escape character.
                  IF Len(s) - RuneLen(rr.char) < 0
                  THEN \* bytes.Buffer.Truncate panics: truncation out of range
                       [field |-> s, err |-> "panic", r |-> rr.r]
                  ELSE readQuotedLoop(d, rr.r,
                                      Truncate(s, Len(s) - RuneLen(rr.char)) \o Utf8(rr.char))
             ELSE [field |-> s, err |-> "nil", r |-> rr.r]
        ELSE [field |-> s, err |-> "panic", r |-> rr.r]

\* Reader.readQuotedField
readQuotedField(d, r) ==
    LET rr == ReadRune(r)
    IN  IF rr.err # "nil" THEN [field |-> EmptyString, err |-> rr.err, r |-> rr.r]
        ELSE IF rr.char # d.QuoteChar
        THEN [field |-> EmptyString, err |-> "panic", r |-> rr.r]
        ELSE readQuotedLoop(d, rr.r, EmptyString)

\* A mutant of readField: a field that starts at a line terminator is scanned
\* as any other
readFieldScan(d, r) ==
    LET rr == ReadRune(r)
    IN  IF rr.err # "nil" THEN [field |-> EmptyString, err |-> rr.err, r |-> r]
        ELSE IF rr.char = d.QuoteChar THEN readQuotedField(d, r)
        ELSE readUnquotedField(d, r)

\* Reader.readField
readField(d, r) ==
    LET islt == nextIsLineTerminator(d, r)
        rr == ReadRune(r)
    IN  IF islt.ok \/ islt.err # "nil"
        THEN [field |-> EmptyString, err |-> islt.err, r |-> r]
        ELSE IF rr.err # "nil" THEN [field |-> EmptyString, err |-> rr.err, r |-> r]
        ELSE IF rr.char = d.QuoteChar THEN readQuotedField(d, r)
        ELSE readUnquotedField(d, r)

\* A mutant of Read's field loop: what follows a field and is neither the
\* terminator nor the delimiter is skipped as a delimiter is
RECURSIVE readLoopSkip(_, _, _)
readLoopSkip(d, r, record) ==
    LET f == readField(d, r)
        rec == Append(record, f.field)
        nd == nextIsDelimiter(d, f.r)
    IN  IF f.err # "nil" THEN [record |-> rec, err |-> f.err, r |-> f.r]
        ELSE IF nextIsLineTerminator(d, f.r).ok
        THEN [record |-> rec, err |-> "nil", r |-> skipLineTerminator(d, f.r)]
        ELSE IF ~nd.ok
        THEN [record |-> rec, err |-> nd.err, r |-> skipDelimiter(d, f.r)]
        ELSE readLoopSkip(d, skipDelimiter(d, f.r), rec)

\* Reader.Read: the field loop, with the record read so far
RECURSIVE readLoop(_, _, _)

\* Reader.Read: one turn of the field loop after f, what r.readField() returned
readLoopField(d, record, f) ==
    LET rec == Append(record, f.field)
        nd == nextIsDelimiter(d, f.r)
    IN  IF f.err # "nil" THEN [record |-> rec, err |-> f.err, r |-> f.r]
        ELSE IF nextIsLineTerminator(d, f.r).ok
        THEN [record |-> rec, err |-> "nil", r |-> skipLineTerminator(d, f.r)]
        ELSE IF ~nd.ok
        THEN \* Herein lies the devil!
             [record |-> rec, err |-> nd.err, r |-> f.r]
        ELSE readLoop(d, skipDelimiter(d, f.r), rec)

readLoop(d, r, record) == readLoopField(d, record, readField(d, r))

\* Reader.Read
Read(d, r) ==
    LET sc == skipComments(d, r)
    IN  IF sc.err # "nil" THEN [record |-> <<>>, err |-> sc.err, r |-> sc.r]
        ELSE readLoop(d, sc.r, <<>>)

\* Reader.ReadAll: the loop, with the rows read so far
RECURSIVE readAllLoop(_, _, _)

\* Reader.ReadAll: one turn of the loop after rd, what r.Read() returned
readAllLoopRow(d, allRows, rd) ==
    IF rd.err = "EOF" THEN [rows |-> allRows, err |-> "nil", r |-> rd.r]
    ELSE IF rd.err # "nil" THEN [rows |-> <<>>, err |-> rd.err, r |-> rd.r]
    ELSE readAllLoop(d, rd.r, Append(allRows, rd.record))

readAllLoop(d, r, allRows) == readAllLoopRow(d, allRows, Read(d, r))

\* Reader.ReadAll
ReadAll(d, r) == readAllLoop(d, r, <<>>)

---------------------------------------------------------------------------
(* The Writer (src/writer.go).  Every operator returns the bytes the       *)
(* method hands to the bufio.Writer.                                       *)

\* A mutant of fieldNeedsQuote: QuoteMinimal tests for any character of the line
\* terminator instead of the whole terminator.
fieldNeedsQuoteAnyChar(d, field) ==
    CASE d.Quoting = QuoteNone -> FALSE
      [] d.Quoting = QuoteAll -> TRUE
      [] d.Quoting = QuoteNonNumeric -> ~isNumeric(field)
      [] d.Quoting = QuoteNonNumericNonEmpty -> ~(isNumeric(field) \/ isEmpty(field))
      [] d.Quoting = QuoteMinimal ->
            \/ \E i \in 1..Len(d.LineTerminator) :
                    ContainsRune(field, d.LineTerminator[i])
            \/ ContainsRune(field, d.Delimiter)
            \/ ContainsRune(field, d.QuoteChar)

\* Writer.fieldNeedsQuote
fieldNeedsQuote(d, field) ==
    CASE d.Quoting = QuoteNone -> FALSE
      [] d.Quoting = QuoteAll -> TRUE
      [] d.Quoting = QuoteNonNumeric -> ~isNumeric(field)
      [] d.Quoting = QuoteNonNumericNonEmpty -> ~(isNumeric(field) \/ isEmpty(field))
      [] d.Quoting = QuoteMinimal ->
            \/ Contains(field, d.LineTerminator)
            \/ ContainsRune(field, d.Delimiter)
            \/ ContainsRune(field, d.QuoteChar)

\* Writer.writeRune
writeRune(c) == Utf8(c)

\* Writer.writeString
writeString(s) == s

\* Writer.writeDelimiter
writeDelimiter(d) == writeRune(d.Delimiter)

\* A mutant of writeEscapeChar: the character is doubled in both escaping modes
writeEscapeCharDouble(d, c) == writeRune(c)

\* A mutant of writeEscapeChar: the quote character comes before the character
\* under DoDoubleQuote
writeEscapeCharQuote(d, c) ==
    CASE d.DoubleQuote = DoDoubleQuote -> writeRune(d.QuoteChar)
      [] d.DoubleQuote = NoDoubleQuote -> writeRune(d.EscapeChar)

\* Writer.writeEscapeChar
writeEscapeChar(d, c) ==
    CASE d.DoubleQuote = DoDoubleQuote -> writeRune(c)
      [] d.DoubleQuote = NoDoubleQuote -> writeRune(d.EscapeChar)

\* Writer.writeQuotedRune
writeQuotedRune(d, c) ==
    IF c = d.EscapeChar THEN writeEscapeChar(d, c) \o writeRune(c)
    ELSE IF c = d.QuoteChar THEN writeEscapeChar(d, c) \o writeRune(c)
    ELSE writeRune(c)

\* Writer.writeQuoted
writeQuoted(d, field) ==
    writeRune(d.QuoteChar)
        \o Flatten([i \in 1..Len(field) |-> writeQuotedRune(d, field[i])])
        \o writeRune(d.QuoteChar)

\* Writer.writeField
writeField(d, field) ==
    IF fieldNeedsQuote(d, field) THEN writeQuoted(d, field) ELSE writeString(field)

\* Writer.writeNewline
writeNewline(d) == writeString(d.LineTerminator)

\* A mutant of Write: a delimiter after every field, the last one too
WriteDelimiterAfter(d, record) ==
    Flatten([n \in 1..Len(record) |-> writeField(d, record[n]) \o writeDelimiter(d)])
        \o writeNewline(d)

\* Writer.Write
Write(d, record) ==
    Flatten([n \in 1..Len(record) |->
                (IF n > 1 THEN writeDelimiter(d) ELSE <<>>) \o writeField(d, record[n])])
        \o writeNewline(d)

\* A mutant of WriteAll: the first record only
WriteAllFirst(d, records) == IF records = <<>> THEN <<>> ELSE Write(d, Head(records))

\* Writer.WriteAll: the bytes of every record, in order
WriteAll(d, records) == Flatten([i \in 1..Len(records) |-> Write(d, records[i])])

---------------------------------------------------------------------------
(* bufio.Writer over the sink (src/writer.go:33).  Its state st holds the  *)
(* bytes delivered to the sink (b), the bytes buffered (w), the sticky     *)
(* error (err) and the sink's behaviour (sink).  The buffer holds BufSize  *)
(* bytes.                                                                  *)

NoLimit == -1      \* a sink that accepts every byte

\* A sink that never fails, as a bytes.Buffer
GoodSink == [room |-> NoLimit, failed |-> FALSE, refused |-> 0]

\* io.Writer.Write(p) of the sink: it accepts the bytes it has room for; when
\* p is longer it returns an error, once, and accepts every byte afterwards
SinkWrite(sk, p) ==
    IF sk.room = NoLimit THEN [n |-> Len(p), err |-> "nil", sink |-> sk]
    ELSE IF Len(p) <= sk.room
    THEN [n |-> Len(p), err |-> "nil", sink |-> [sk EXCEPT !.room = @ - Len(p)]]
    ELSE [n |-> sk.room, err |-> ErrIO,
          sink |-> [room |-> NoLimit, failed |-> TRUE, refused |-> Len(p) - sk.room]]

\* A mutant of Flush: the delivered bytes stay in the buffer
FlushKeep(st) ==
    IF st.err # "nil" \/ st.w = <<>> THEN st
    ELSE LET sw == SinkWrite(st.sink, st.w)
         IN  [b |-> st.b \o SubSeq(st.w, 1, sw.n), w |-> st.w,
              err |-> sw.err, sink |-> sw.sink]

\* A mutant of Flush: the error of a failed delivery is not kept
FlushForget(st) ==
    IF st.err # "nil" \/ st.w = <<>> THEN st
    ELSE LET sw == SinkWrite(st.sink, st.w)
         IN  [b |-> st.b \o SubSeq(st.w, 1, sw.n), w |-> SubSeq(st.w, sw.n + 1, Len(st.w)),
              err |-> "nil", sink |-> sw.sink]

\* Writer.Flush (bufio.Writer.Flush): what is buffered goes to the sink; after
\* an error nothing is delivered any more, and what a failed delivery did not
\* accept stays buffered
Flush(st) ==
    IF st.err # "nil" \/ st.w = <<>> THEN st
    ELSE LET sw == SinkWrite(st.sink, st.w)
         IN  [b |-> st.b \o SubSeq(st.w, 1, sw.n), w |-> SubSeq(st.w, sw.n + 1, Len(st.w)),
              err |-> sw.err, sink |-> sw.sink]

\* A mutant of WriteString: a failed delivery does not stop the bytes that follow
RECURSIVE WriteStringOn(_, _)
WriteStringOn(st, s) ==
    IF Len(s) <= BufSize - Len(st.w) THEN [st EXCEPT !.w = @ \o s]
    ELSE LET k == BufSize - Len(st.w)
             fl == Flush([st EXCEPT !.w = @ \o SubSeq(s, 1, k), !.err = "nil"])
         IN  WriteStringOn([fl EXCEPT !.err = IF st.err # "nil" THEN st.err ELSE @],
                           SubSeq(s, k + 1, Len(s)))

\* bufio.Writer.WriteString(s), and WriteRune for a string of one character:
\* while s does not fit, the buffer is filled and flushed; once an error is
\* set nothing more is taken.  The state's err is the error returned.
RECURSIVE WriteString(_, _)
WriteString(st, s) ==
    IF st.err # "nil" THEN st
    ELSE IF Len(s) <= BufSize - Len(st.w) THEN [st EXCEPT !.w = @ \o s]
    ELSE LET k == BufSize - Len(st.w)
         IN  WriteString(Flush([st EXCEPT !.w = @ \o SubSeq(s, 1, k)]),
                         SubSeq(s, k + 1, Len(s)))

\* Writer.Error: w.w.Write(nil) returns the sticky error
Error(st) == st.err

---------------------------------------------------------------------------
(* The dialects, records and input texts enumerated.                       *)

\* Strings over alphabet A of length at most n
Strings(A, n) == UNION {[1..k -> A] : k \in 0..n}

\* Every quoting mode and escaping mode, unset or set, over two settings of the
\* characters: all unset (the defaults apply) and all set to other values.
Dialects ==
    {Dialect(NUL, q, dq, NUL, NUL, EmptyString, NUL) : q \in 0..5, dq \in 0..2}
        \cup {Dialect(";", q, dq, "^", "'", CRLF, "%") : q \in 0..5, dq \in 0..2}

\* The dialects a Reader tells apart: it never looks at the quoting mode
ReaderDialects == {c \in Dialects : c.Quoting = QuoteDefault /\ c.DoubleQuote # DoDoubleQuote}

\* Field values: empty, a letter, a number, dotted digits, and each special character of the
\* resolved dialect d on its own (the first terminator character as well as the
\* whole terminator)
FieldsOf(d) ==
    {EmptyString, <<"a">>, <<"1">>, <<"1", ".", "1">>, <<"1", ".", "1", ".", "1">>,
     <<d.Delimiter>>, <<d.QuoteChar>>, <<d.EscapeChar>>, <<d.Comment>>,
     d.LineTerminator, <<Head(d.LineTerminator)>>}

\* Records: no field, one field of any value, and some of two fields
RecordsOf(d) ==
    {<<>>} \cup {<<f>> : f \in FieldsOf(d)}
        \cup {<<<<"a">>, EmptyString>>, <<EmptyString, <<"a">>>>,
              <<<<Head(d.LineTerminator)>>, d.LineTerminator>>}

\* The characters of an input text for a Reader with the resolved dialect d
Alphabet(d) ==
    {"a", " ", d.Delimiter, d.QuoteChar, d.Comment}
        \cup {d.LineTerminator[i] : i \in 1..Len(d.LineTerminator)}
        \cup (IF d.DoubleQuote = NoDoubleQuote THEN {d.EscapeChar} ELSE {})

\* Dialects that escape with EscapeChar and hold the two-byte character: as
\* the quote character, or as the escape character
WideDialects ==
    {Dialect(NUL, QuoteDefault, NoDoubleQuote, NUL, Wide, EmptyString, NUL),
     Dialect(NUL, QuoteDefault, NoDoubleQuote, Wide, NUL, EmptyString, NUL)}

\* Dialects whose special characters collide or occur in the line terminator
CollidingDialects ==
    {Dialect("\"", QuoteDefault, DoubleQuoteDefault, NUL, NUL, EmptyString, NUL),
     Dialect(NUL, QuoteDefault, NoDoubleQuote, "\"", NUL, EmptyString, NUL),
     Dialect(NUL, QuoteDefault, DoubleQuoteDefault, NUL, NUL, EmptyString, ","),
     Dialect(NUL, QuoteDefault, DoubleQuoteDefault, NUL, NUL, <<",", "\n">>, NUL),
     Dialect(NUL, QuoteDefault, DoubleQuoteDefault, NUL, NUL, <<"\"", "\n">>, NUL)}

\* The UTF-8 encoding of a text given by its characters
Encode(text) == Flatten([i \in 1..Len(text) |-> Utf8(text[i])])

---------------------------------------------------------------------------
(* The state machine.                                                      *)

NoCall == [name |-> "New", arg |-> <<>>, from |-> 0, record |-> <<>>, rows |-> <<>>,
           err |-> "nil", ok |-> FALSE]

\* The part of b the Reader has not consumed
Rest == SubSeq(b, pos + 1, Len(b))

\* NewDialectWriter(b, cfg) and NewDialectReader(b, cfg) over an empty buffer
Init ==
    /\ cfg \in Dialects
    /\ wopts = setDefaults(cfg)
    /\ ropts = setDefaults(cfg)
    /\ w = <<>>
    /\ b = <<>>
    /\ pos = 0
    /\ wrote = <<>>
    /\ call = NoCall
    /\ werr = "nil"
    /\ sink = GoodSink
    /\ u = NewUnReader

\* b.WriteString(text); NewDialectReader(b, cfg), as the Reader's tests do
InitRead ==
    /\ cfg \in ReaderDialects
    /\ wopts = setDefaults(cfg)
    /\ ropts = setDefaults(cfg)
    /\ w = <<>>
    /\ b \in Strings(Alphabet(setDefaults(cfg)), MaxLen)
    /\ pos = 0
    /\ wrote = <<>>
    /\ call = NoCall
    /\ werr = "nil"
    /\ sink = GoodSink
    /\ u = NewUnReader

\* Input texts holding a run of spaces as long as the bufio.Reader's buffer, or
\* one shorter: after nothing or a first line, and before a comment or a field.
\* A run one shorter than the buffer is followed by a comment only.
LongSpace(k) == [i \in 1..k |-> " "]

LongTexts(d) ==
    LET heads == {<<>>, <<"a">> \o d.LineTerminator,
                  <<d.Comment>> \o d.LineTerminator}
        comments == {<<d.Comment>> \o d.LineTerminator,
                     <<d.Comment, "a">> \o d.LineTerminator \o <<"a">> \o d.LineTerminator}
        fields == {<<"a">> \o d.LineTerminator, <<"a">>, <<>>,
                   <<d.QuoteChar, d.QuoteChar>> \o d.LineTerminator,
                   <<d.Delimiter>> \o d.LineTerminator}
    IN  {h \o LongSpace(BufSize - 1) \o t : h \in heads, t \in comments}
            \cup {h \o LongSpace(BufSize) \o t : h \in heads, t \in comments \cup fields}

\* NewDialectReader over a source that delivers a text and then fails
InitFail ==
    /\ cfg \in ReaderDialects
    /\ wopts = setDefaults(cfg)
    /\ ropts = setDefaults(cfg)
    /\ w = <<>>
    /\ b \in {Append(text, ErrIO) : text \in Strings(Alphabet(setDefaults(cfg)), MaxLen - 1)}
    /\ pos = 0
    /\ wrote = <<>>
    /\ call = NoCall
    /\ werr = "nil"
    /\ sink = GoodSink
    /\ u = NewUnReader

\* b.WriteString(text); NewDialectReader(b, cfg), for dialects of any kind
InitAny ==
    /\ cfg \in WideDialects \cup CollidingDialects
    /\ wopts = setDefaults(cfg)
    /\ ropts = setDefaults(cfg)
    /\ w = <<>>
    /\ b \in {Encode(text) : text \in Strings(Alphabet(setDefaults(cfg)), MaxLen)}
    /\ pos = 0
    /\ wrote = <<>>
    /\ call = NoCall
    /\ werr = "nil"
    /\ sink = GoodSink
    /\ u = NewUnReader

\* b.WriteString(text); NewDialectReader(b, cfg), for the Reader's dialects and
\* those with the two-byte character
InitScan ==
    /\ cfg \in ReaderDialects \cup WideDialects
    /\ wopts = setDefaults(cfg)
    /\ ropts = setDefaults(cfg)
    /\ w = <<>>
    /\ b \in {Encode(text) : text \in Strings(Alphabet(setDefaults(cfg)), MaxLen)}
    /\ pos = 0
    /\ wrote = <<>>
    /\ call = NoCall
    /\ werr = "nil"
    /\ sink = GoodSink
    /\ u = NewUnReader

\* b.WriteString(text); NewDialectReader(b, cfg), for the long texts
InitBuf ==
    /\ cfg \in ReaderDialects
    /\ wopts = setDefaults(cfg)
    /\ ropts = setDefaults(cfg)
    /\ w = <<>>
    /\ b \in LongTexts(setDefaults(cfg))
    /\ pos = 0
    /\ wrote = <<>>
    /\ call = NoCall
    /\ werr = "nil"
    /\ sink = GoodSink
    /\ u = NewUnReader

\* The bufio.Writer of the Writer, and the sink under it
WriterState == [b |-> b, w |-> w, err |-> werr, sink |-> sink]

\* Writer.Write(record): its writeRune and writeString calls reach the
\* bufio.Writer in order, and the first that returns an error ends it
DoWrite(record) ==
    \E st \in {WriteString(WriterState, Write(wopts, record))} :
        /\ b' = st.b
        /\ w' = st.w
        /\ werr' = st.err
        /\ sink' = st.sink
        /\ wrote' = Append(wrote, record)
        /\ call' = [NoCall EXCEPT !.name = "Write", !.arg = <<record>>,
                                  !.from = Len(b) + Len(w), !.err = st.err]
        /\ UNCHANGED <<u, cfg, wopts, ropts, pos>>

\* Writer.WriteAll(records): every record, up to the first Write that returns
\* an error; without one, w.w.Flush()
DoWriteAll(records) ==
    \E wr \in {WriteString(WriterState, WriteAll(wopts, records))} :
    \E st \in {IF wr.err # "nil" THEN wr ELSE Flush(wr)} :
        /\ b' = st.b
        /\ w' = st.w
        /\ werr' = st.err
        /\ sink' = st.sink
        /\ wrote' = wrote \o records
        /\ call' = [NoCall EXCEPT !.name = "WriteAll", !.arg = records,
                                  !.from = Len(b) + Len(w), !.err = st.err]
        /\ UNCHANGED <<u, cfg, wopts, ropts, pos>>

\* Writer.Write(record)
WriterWrite ==
    \E record \in RecordsOf(wopts) : Len(wrote) < MaxRecords /\ DoWrite(record)

\* Writer.WriteAll(records)
WriterWriteAll ==
    \E records \in Strings(RecordsOf(wopts), MaxRecords - Len(wrote)) : DoWriteAll(records)

\* Writer.Flush(); from is what the sink held before, and ok tells that the
\* call before this one was a Flush as well
WriterFlush ==
    \E st \in {Flush(WriterState)} :
        /\ b' = st.b
        /\ w' = st.w
        /\ werr' = st.err
        /\ sink' = st.sink
        /\ call' = [NoCall EXCEPT !.name = "Flush", !.from = Len(b),
                                  !.ok = (call.name = "Flush")]
        /\ UNCHANGED <<u, cfg, wopts, ropts, pos, wrote>>

\* Writer.Error()
WriterError ==
    /\ call' = [NoCall EXCEPT !.name = "Error", !.err = Error(WriterState)]
    /\ UNCHANGED <<u, cfg, wopts, ropts, w, b, pos, wrote, werr, sink>>

\* Reader.Read()
ReaderRead ==
    LET rd == Read(ropts, Rest)
    IN  /\ pos' = Len(b) - Len(rd.r)
        /\ call' = [NoCall EXCEPT !.name = "Read", !.from = pos,
                                  !.record = rd.record, !.err = rd.err]
        /\ UNCHANGED <<u, cfg, wopts, ropts, w, b, wrote, werr, sink>>

\* Reader.ReadAll()
ReaderReadAll ==
    LET ra == ReadAll(ropts, Rest)
    IN  /\ pos' = Len(b) - Len(ra.r)
        /\ call' = [NoCall EXCEPT !.name = "ReadAll", !.from = pos,
                                  !.rows = ra.rows, !.err = ra.err]
        /\ UNCHANGED <<u, cfg, wopts, ropts, w, b, wrote, werr, sink>>

\* Read has returned, or has not been called yet: the next step starts a Read
ReadReturned ==
    \/ call.name \in {"New", "skipLineTerminator", "nextIsDelimiter"}
    \/ call.name \in {"skipComments", "readField"} /\ call.err # "nil"

\* Read, up to its field loop: r.skipComments(), and the return on its error
ReaderSkipComments ==
    LET sc == skipComments(ropts, Rest)
    IN  /\ ReadReturned
        /\ pos' = Len(b) - Len(sc.r)
        /\ call' = [NoCall EXCEPT !.name = "skipComments", !.from = pos, !.err = sc.err]
        /\ UNCHANGED <<u, cfg, wopts, ropts, w, b, wrote, werr, sink>>

\* Read, in its field loop: r.readField(), and the return on its error.  arg
\* names the scanner that readField called, if any.
ReaderReadField ==
    LET f == readField(ropts, Rest)
        scanner == IF nextIsLineTerminator(ropts, Rest).ok
                      \/ nextIsLineTerminator(ropts, Rest).err # "nil"
                      \/ ReadRune(Rest).err # "nil"
                   THEN "none"
                   ELSE IF ReadRune(Rest).char = ropts.QuoteChar THEN "readQuotedField"
                   ELSE "readUnquotedField"
    IN  /\ \/ call.name = "skipComments" /\ call.err = "nil"
           \/ call.name = "skipDelimiter"
        /\ pos' = Len(b) - Len(f.r)
        /\ call' = [NoCall EXCEPT !.name = "readField", !.arg = scanner, !.from = pos,
                                  !.record = <<f.field>>, !.err = f.err]
        /\ UNCHANGED <<u, cfg, wopts, ropts, w, b, wrote, werr, sink>>

\* Read, after a field: the terminator is skipped and Read returns, or the
\* delimiter is skipped and the loop goes on, or Read returns at anything else
ReaderEndField ==
    LET nd == nextIsDelimiter(ropts, Rest)
    IN  /\ call.name = "readField"
        /\ call.err = "nil"
        /\ IF nextIsLineTerminator(ropts, Rest).ok
           THEN /\ pos' = Len(b) - Len(skipLineTerminator(ropts, Rest))
                /\ call' = [NoCall EXCEPT !.name = "skipLineTerminator", !.from = pos]
           ELSE IF ~nd.ok
           THEN /\ pos' = pos
                /\ call' = [NoCall EXCEPT !.name = "nextIsDelimiter", !.from = pos,
                                          !.err = nd.err]
           ELSE /\ pos' = Len(b) - Len(skipDelimiter(ropts, Rest))
                /\ call' = [NoCall EXCEPT !.name = "skipDelimiter", !.from = pos]
        /\ UNCHANGED <<u, cfg, wopts, ropts, w, b, wrote, werr, sink>>

\* The steps of Read
NextScan ==
    \/ ReaderSkipComments
    \/ ReaderReadField
    \/ ReaderEndField

\* A Reader's Read calls, step by step, over every short input text
SpecScan == InitScan /\ [][NextScan]_vars

\* The caller's calls on a Writer and a Reader over one buffer, with at most
\* MaxRoundTrip records written
Next ==
    \/ (Len(wrote) < MaxRoundTrip /\ WriterWrite)
    \/ (WriterWriteAll /\ Len(wrote') <= MaxRoundTrip)
    \/ WriterFlush
    \/ ReaderRead
    \/ ReaderReadAll

\* A Writer and a Reader over one buffer
Spec == Init /\ [][Next]_vars

NextRead ==
    \/ ReaderRead
    \/ ReaderReadAll

\* A Reader over every short input text
SpecRead == InitRead /\ [][NextRead]_vars

NextWrite ==
    \/ WriterWrite
    \/ WriterWriteAll
    \/ WriterFlush

\* A Reader over texts with a buffer-long run of spaces
SpecBuf == InitBuf /\ [][NextRead]_vars

\* A Reader with a dialect of any kind over every short input text
SpecAny == InitAny /\ [][NextRead]_vars

\* A Reader over a source that fails after a short text
SpecFail == InitFail /\ [][NextRead]_vars

\* A Writer alone
SpecWrite == Init /\ [][NextWrite]_vars

\* A numeric field as long as the bufio.Writer's buffer, or nearly
LongField(k) == [i \in 1..k |-> "1"]

\* A short record, and records that fill the bufio.Writer's buffer: at the
\* delimiter, or exactly or inside the terminator; after the short record
\* they fill it inside the long field
SinkRecords ==
    {<<<<"a">>>>, <<LongField(BufSize), <<"a">>>>, <<LongField(BufSize - 1)>>}

\* The dialects of a Writer over a failing sink: the defaults, quoting what is
\* not numeric, and the other characters, quoting nothing
SinkDialects ==
    {c \in Dialects : /\ c.DoubleQuote = DoubleQuoteDefault
                      /\ \/ c.Delimiter = NUL /\ c.Quoting = QuoteNonNumeric
                         \/ c.Delimiter # NUL /\ c.Quoting = QuoteNone}

\* What the sink accepts before a write fails: everything, nothing, one byte,
\* one buffer
Rooms == {NoLimit, 0, 1, BufSize}

\* NewDialectWriter(sink, cfg) over a sink that may fail
InitSink ==
    /\ cfg \in SinkDialects
    /\ wopts = setDefaults(cfg)
    /\ ropts = setDefaults(cfg)
    /\ w = <<>>
    /\ b = <<>>
    /\ pos = 0
    /\ wrote = <<>>
    /\ call = NoCall
    /\ werr = "nil"
    /\ sink \in {[GoodSink EXCEPT !.room = n] : n \in Rooms}
    /\ u = NewUnReader

\* Writer.Write(record), for the long records
WriterWriteLong ==
    \E record \in SinkRecords : Len(wrote) < MaxRecords /\ DoWrite(record)

\* Writer.WriteAll(records), for the long records
WriterWriteAllLong ==
    \E records \in Strings(SinkRecords, MaxRecords - Len(wrote)) : DoWriteAll(records)

NextSink ==
    \/ WriterWriteLong
    \/ WriterWriteAllLong
    \/ WriterFlush
    \/ WriterError

\* A Writer over a sink that may fail, with records that fill the buffer
SpecSink == InitSink /\ [][NextSink]_vars

\* The characters of the strings isNumeric is asked about: digits, the dot, a
\* letter and a space
\* The texts under the lookahead: characters of one and of two bytes, and the
\* first byte of a two-byte character alone
LookaheadBytes == {"a", "\r", "\n", WideLead, WideCont}

\* The dialect under the lookahead: a delimiter of two bytes and a terminator
\* of two characters
LookaheadDialects ==
    {Dialect(Wide, QuoteDefault, DoubleQuoteDefault, NUL, NUL, CRLF, NUL)}

\* b.WriteString(text); NewUnReader(b) and NewDialectReader(b, cfg), each
\* over its own copy of the text
InitLookahead ==
    /\ cfg \in LookaheadDialects
    /\ wopts = setDefaults(cfg)
    /\ ropts = setDefaults(cfg)
    /\ w = <<>>
    /\ b \in Strings(LookaheadBytes, MaxLen - 1)
    /\ pos = 0
    /\ wrote = <<>>
    /\ call = NoCall
    /\ werr = "nil"
    /\ sink = GoodSink
    /\ u = NewUnReader

\* The unReader u, with the bytes its bufio.Reader has still to read
UnReader == [b |-> u.b, r |-> SubSeq(b, u.r + 1, Len(b))]

\* The value of u for an unReader
UnReaderState(un) == [b |-> un.b, r |-> Len(b) - Len(un.r)]

\* The strings a caller looks ahead for
LookaheadStrings == {<<"a">>, Utf8(Wide), CRLF, <<"a">> \o Utf8(Wide)}

\* u.ReadRune()
UnReaderReadRune ==
    \E rr \in {unReaderReadRune(UnReader)} :
        /\ u' = UnReaderState(rr.u)
        /\ call' = [NoCall EXCEPT !.name = "unReader.ReadRune", !.arg = rr.char,
                                  !.err = rr.err]
        /\ UNCHANGED <<cfg, wopts, ropts, w, b, pos, wrote, werr, sink>>

\* u.UnreadRune(c)
UnReaderUnreadRune ==
    \E c \in {"a", Wide} :
        /\ Len(u.b) < MaxLen - 2
        /\ u' = UnReaderState(UnreadRune(UnReader, c))
        /\ call' = [NoCall EXCEPT !.name = "unReader.UnreadRune", !.arg = c]
        /\ UNCHANGED <<cfg, wopts, ropts, w, b, pos, wrote, werr, sink>>

\* u.NextIsString(s)
UnReaderNextIsString ==
    \E s \in LookaheadStrings :
        \E n \in {NextIsString(UnReader, s)} :
            /\ u' = UnReaderState(n.u)
            /\ call' = [NoCall EXCEPT !.name = "unReader.NextIsString", !.arg = s,
                                      !.ok = n.ok, !.err = n.err]
            /\ UNCHANGED <<cfg, wopts, ropts, w, b, pos, wrote, werr, sink>>

\* r.nextIsLineTerminator()
ReaderNextIsLineTerminator ==
    \E n \in {nextIsLineTerminator(ropts, Rest)} :
        /\ call' = [NoCall EXCEPT !.name = "nextIsLineTerminator", !.from = pos,
                                  !.ok = n.ok, !.err = n.err]
        /\ UNCHANGED <<u, cfg, wopts, ropts, w, b, pos, wrote, werr, sink>>

\* r.nextIsDelimiter()
ReaderNextIsDelimiter ==
    \E n \in {nextIsDelimiter(ropts, Rest)} :
        /\ call' = [NoCall EXCEPT !.name = "nextIsDelimiter", !.from = pos,
                                  !.ok = n.ok, !.err = n.err]
        /\ UNCHANGED <<u, cfg, wopts, ropts, w, b, pos, wrote, werr, sink>>

\* r.r.ReadRune()
ReaderReadRune ==
    \E rr \in {ReadRune(Rest)} :
        /\ pos' = Len(b) - Len(rr.r)
        /\ call' = [NoCall EXCEPT !.name = "ReadRune", !.from = pos, !.arg = rr.char,
                                  !.err = rr.err]
        /\ UNCHANGED <<u, cfg, wopts, ropts, w, b, wrote, werr, sink>>

NextLookahead ==
    \/ UnReaderReadRune
    \/ UnReaderUnreadRune
    \/ UnReaderNextIsString
    \/ ReaderNextIsLineTerminator
    \/ ReaderNextIsDelimiter
    \/ ReaderReadRune

SpecLookahead == InitLookahead /\ [][NextLookahead]_vars

NumericAlphabet == Digits \cup {".", "a", " "}

\* isNumeric(s), as fieldNeedsQuote calls it on a field
CallIsNumeric ==
    \E s \in Strings(NumericAlphabet, MaxLen) :
        /\ call' = [NoCall EXCEPT !.name = "isNumeric", !.arg = s, !.ok = isNumeric(s)]
        /\ UNCHANGED <<u, cfg, wopts, ropts, w, b, pos, wrote, werr, sink>>

NextNumeric == CallIsNumeric

\* isNumeric over every short string
SpecNumeric == Init /\ [][NextNumeric]_vars

---------------------------------------------------------------------------
(* What the claims speak of.                                               *)

\* Delimiter, quote, escape and comment characters pairwise distinct, and none
\* of them in the line terminator
ValidDialect(d) ==
    /\ Cardinality({d.Delimiter, d.QuoteChar, d.EscapeChar, d.Comment}) = 4
    /\ \A i \in 1..Len(d.LineTerminator) :
           d.LineTerminator[i] \notin {d.Delimiter, d.QuoteChar, d.EscapeChar, d.Comment}

\* s has sub at index i
OccursAt(s, sub, i) == i >= 1 /\ i + Len(sub) - 1 <= Len(s) /\ SubSeq(s, i, i + Len(sub) - 1) = sub

\* The text the last Reader call started at
TextFrom == SubSeq(b, call.from + 1, Len(b))

\* The last Reader call started at the beginning of a line
AtLineStart ==
    call.from = 0 \/ OccursAt(b, ropts.LineTerminator, call.from - Len(ropts.LineTerminator) + 1)

\* The bytes the last Writer call handed to the bufio.Writer or the buffer
Emitted == SubSeq(b \o w, call.from + 1, Len(b) + Len(w))

\* text cut at every character c
RECURSIVE SplitAt(_, _, _)
SplitAt(text, c, field) ==
    IF text = <<>> THEN <<field>>
    ELSE IF Head(text) = c THEN <<field>> \o SplitAt(Tail(text), c, <<>>)
    ELSE SplitAt(Tail(text), c, Append(field, Head(text)))

\* The record Write must emit when quotes(f) tells which fields are quoted
Framed(d, record, quotes(_)) ==
    Flatten([n \in 1..Len(record) |->
                (IF n > 1 THEN <<d.Delimiter>> ELSE <<>>)
                    \o (IF quotes(record[n]) THEN writeQuoted(d, record[n]) ELSE record[n])])
        \o d.LineTerminator

---------------------------------------------------------------------------
(* C1 *)

\* C1 (as claimed): for a valid dialect, ReadAll over the bytes WriteAll produced
\* for a record sequence returns that sequence and a nil error.
C1_RoundTrip ==
    (/\ call.name = "ReadAll"
     /\ call.from = 0
     /\ w = <<>>
     /\ b = WriteAll(wopts, wrote)
     /\ ValidDialect(ropts))
        => (call.rows = wrote /\ call.err = "nil")

---------------------------------------------------------------------------
(* C2 *)

\* An unterminated last line of plain text: not empty, holding no line
\* terminator, no quote and no comment character
UnterminatedPlain(d, text) ==
    /\ text # <<>>
    /\ \A i \in 1..Len(text) :
           ~OccursAt(text, d.LineTerminator, i) /\ text[i] \notin {d.QuoteChar, d.Comment}

\* C2 (as claimed): when the source ends before a line terminator is found, Read
\* returns every field scanned, the unterminated last one in full, with EOF.
C2_PartialRecordAtEOF ==
    (call.name = "Read" /\ AtLineStart /\ UnterminatedPlain(ropts, TextFrom))
        => (call.err = "EOF" /\ call.record = SplitAt(TextFrom, ropts.Delimiter, <<>>))

---------------------------------------------------------------------------
(* C3 *)

\* The non-empty records successive Read calls return from r on
RECURSIVE NonEmptyReads(_, _)
NonEmptyReads(d, r) ==
    LET rd == Read(d, r)
    IN  IF rd.err = "nil" THEN <<rd.record>> \o NonEmptyReads(d, rd.r)
        ELSE IF rd.record # <<>> THEN <<rd.record>>
        ELSE <<>>

\* C3 (as claimed): ReadAll returns the non-empty records successive Read calls
\* return, the final unterminated record included.
C3_ReadAllReturnsAll ==
    call.name = "ReadAll" => call.rows = NonEmptyReads(ropts, TextFrom)

---------------------------------------------------------------------------
(* C4 *)

\* C4 (as claimed): ReadAll returns a nil error on every finite input (the
\* source of the model never fails).
C4_ReadAllNilError ==
    call.name = "ReadAll" => call.err = "nil"

---------------------------------------------------------------------------
(* C5 *)

\* Index of the comment character that opens text as a comment line, after
\* leading spaces and tabs only; 0 when text does not open with a comment line
CommentMarker(d, text) ==
    LET ms == {k \in 1..Len(text) :
                  /\ text[k] = d.Comment
                  /\ \A j \in 1..(k - 1) : text[j] \in Space
                  /\ \E i \in (k + 1)..Len(text) : OccursAt(text, d.LineTerminator, i)}
    IN  IF ms = {} THEN 0 ELSE CHOOSE k \in ms : TRUE

\* text without its leading comment lines, each discarded through its terminator
RECURSIVE StripCommentLines(_, _)
StripCommentLines(d, text) ==
    LET k == CommentMarker(d, text)
    IN  IF k = 0 THEN text
        ELSE LET i == CHOOSE i \in (k + 1)..Len(text) :
                          /\ OccursAt(text, d.LineTerminator, i)
                          /\ \A j \in (k + 1)..(i - 1) : ~OccursAt(text, d.LineTerminator, j)
             IN  StripCommentLines(d, SubSeq(text, i + Len(d.LineTerminator), Len(text)))

\* C5 (as claimed): a Read that starts at comment lines discards each of them
\* through its terminator, whatever follows the marker, and returns what a Read
\* of the first following non-comment line returns.
C5_CommentLinesSkipped ==
    (call.name = "Read" /\ AtLineStart /\ CommentMarker(ropts, TextFrom) # 0)
        => LET rd == Read(ropts, StripCommentLines(ropts, TextFrom))
           IN  /\ call.record = rd.record
               /\ call.err = rd.err
               /\ pos = Len(b) - Len(rd.r)

---------------------------------------------------------------------------
(* C6 *)

\* Index in b where the physical line of index i starts
LineStart(d, i) ==
    LET starts == {j \in 1..i : j = 1 \/ OccursAt(b, d.LineTerminator, j - Len(d.LineTerminator))}
    IN  CHOOSE j \in starts : \A k \in starts : k <= j

\* Indexes in b of the comment characters that follow other content on their
\* line: the first character of the line that is no space or tab comes before
\* them and is not the comment character
MidLineComments(d) ==
    {i \in 1..Len(b) :
        /\ b[i] = d.Comment
        /\ \E j \in LineStart(d, i)..(i - 1) :
               /\ b[j] \notin Space \cup {d.Comment}
               /\ \A k \in LineStart(d, i)..(j - 1) : b[k] \in Space}

\* Number of occurrences of c in s
Count(s, c) == Cardinality({i \in 1..Len(s) : s[i] = c})

\* C6 (as claimed): every comment character a Read consumes that is preceded on
\* its line by non-whitespace content is returned in the record; none is
\* discarded as the start of a comment.
C6_MidLineCommentIsData ==
    call.name = "Read"
        => Count(Flatten(call.record), ropts.Comment)
               >= Cardinality(MidLineComments(ropts) \cap ((call.from + 1)..pos))

---------------------------------------------------------------------------
(* C7 *)

\* C7 (as claimed): a Reader whose dialect leaves the comment character unset
\* skips no line; a first line starting with '#' is returned as a record.
C7_NoDefaultComment ==
    (call.name = "Read" /\ cfg.Comment = NUL /\ call.from = 0 /\ b # <<>> /\ Head(b) = "#")
        => (call.record # <<>> /\ Head(call.record) # <<>> /\ Head(Head(call.record)) = "#")

---------------------------------------------------------------------------
(* C8 *)

\* o is c with the default in each unset field and every set field unchanged
ResolvedFrom(c, o) ==
    /\ o.Delimiter = (IF c.Delimiter = NUL THEN "," ELSE c.Delimiter)
    /\ o.QuoteChar = (IF c.QuoteChar = NUL THEN "\"" ELSE c.QuoteChar)
    /\ o.EscapeChar = (IF c.EscapeChar = NUL THEN "\\" ELSE c.EscapeChar)
    /\ o.DoubleQuote = (IF c.DoubleQuote = DoubleQuoteDefault THEN DoDoubleQuote ELSE c.DoubleQuote)
    /\ o.Quoting = (IF c.Quoting = QuoteDefault THEN QuoteMinimal ELSE c.Quoting)
    /\ o.LineTerminator = (IF c.LineTerminator = <<>> THEN <<"\n">> ELSE c.LineTerminator)
    /\ c.Comment # NUL => o.Comment = c.Comment

---------------------------------------------------------------------------
(* C9 *)

\* What the records must be written as when quotes(f) tells which fields are
\* quoted
FramedAll(d, records, quotes(_)) ==
    Flatten([n \in 1..Len(records) |-> Framed(d, records[n], quotes)])

\* field holds the delimiter, the quote character or the whole line terminator
HoldsSpecial(d, field) ==
    \/ \E i \in 1..Len(field) : field[i] = d.Delimiter
    \/ \E i \in 1..Len(field) : field[i] = d.QuoteChar
    \/ \E i \in 1..Len(field) : OccursAt(field, d.LineTerminator, i)

\* C9: under QuoteMinimal, Write and WriteAll emit each field quoted if and only
\* if it holds the delimiter, the quote character or the complete line
\* terminator, and every other field as it is.
C9_MinimalQuoting ==
    (call.name \in {"Write", "WriteAll"} /\ wopts.Quoting = QuoteMinimal)
        => Emitted = FramedAll(wopts, call.arg, LAMBDA f : HoldsSpecial(wopts, f))

\* A record written under QuoteMinimal with a two-character terminator: the
\* field that is the first terminator character only is written bare, the field
\* that is the terminator is quoted
C9_Witness ==
    /\ call.name = "Write"
    /\ wopts.Quoting = QuoteMinimal
    /\ Len(wopts.LineTerminator) = 2
    /\ call.arg = <<<<<<Head(wopts.LineTerminator)>>, wopts.LineTerminator>>>>
    /\ Emitted = <<Head(wopts.LineTerminator), wopts.Delimiter, wopts.QuoteChar>>
                     \o wopts.LineTerminator \o <<wopts.QuoteChar>> \o wopts.LineTerminator

---------------------------------------------------------------------------
(* C10 *)

\* field is not empty and holds digits only, but for at most one '.' 
Numeric(field) ==
    /\ field # <<>>
    /\ \A i \in 1..Len(field) : field[i] \in Digits \cup {"."}
    /\ Cardinality({i \in 1..Len(field) : field[i] = "."}) <= 1

\* The fields each mode but QuoteMinimal quotes
PolicyQuotes(d, field) ==
    CASE d.Quoting = QuoteNone -> FALSE
      [] d.Quoting = QuoteAll -> TRUE
      [] d.Quoting = QuoteNonNumeric -> ~Numeric(field)
      [] d.Quoting = QuoteNonNumericNonEmpty -> ~Numeric(field) /\ field # <<>>

\* C10 (as claimed): Write and WriteAll quote no field under QuoteNone, every field under
\* QuoteAll, exactly the fields that are not numeric under QuoteNonNumeric (the
\* empty field among them), and exactly the fields neither numeric nor empty
\* under QuoteNonNumericNonEmpty.
C10_QuotingPolicy ==
    (/\ call.name \in {"Write", "WriteAll"}
     /\ wopts.Quoting \in {QuoteNone, QuoteAll, QuoteNonNumeric, QuoteNonNumericNonEmpty})
        => Emitted = FramedAll(wopts, call.arg, LAMBDA f : PolicyQuotes(wopts, f))

---------------------------------------------------------------------------
(* C11 *)

\* C11 (as claimed): isNumeric tells exactly the non-empty strings of decimal
\* digits with at most a single '.' among them; the empty string and a string
\* with any other character are not numeric.
C11_IsNumeric ==
    call.name = "isNumeric" => (call.ok <=> Numeric(call.arg))

---------------------------------------------------------------------------
(* C12 *)

\* The strings of ss in order, with sep between consecutive ones
RECURSIVE Join(_, _)
Join(ss, sep) ==
    IF ss = <<>> THEN <<>>
    ELSE IF Len(ss) = 1 THEN Head(ss)
    ELSE Head(ss) \o sep \o Join(Tail(ss), sep)

\* The ways of encoding a record field by field: a field is written quoted or
\* as it is, and as it is when the quoting policy does not quote it
EncodingsOf(d, record) ==
    {encs \in [1..Len(record) -> {record[n] : n \in 1..Len(record)}
                                    \cup {writeQuoted(d, record[n]) : n \in 1..Len(record)}] :
        \A n \in 1..Len(record) :
            /\ encs[n] \in {record[n], writeQuoted(d, record[n])}
            /\ ~fieldNeedsQuote(d, record[n]) => encs[n] = record[n]}

\* C12: Write emits the encodings of the fields in order, one delimiter between
\* consecutive fields and none before the first or after the last, then one line
\* terminator; with no field it emits the terminator only; a field the quoting
\* policy does not quote is emitted as it is.
C12_RecordFraming ==
    call.name = "Write"
        => LET record == call.arg[1]
           IN  /\ \E encs \in EncodingsOf(wopts, record) :
                      Emitted = Join(encs, <<wopts.Delimiter>>) \o wopts.LineTerminator
               /\ record = <<>> => Emitted = wopts.LineTerminator

\* A record of two fields the policy does not quote, the second empty: written
\* as the first field, one delimiter and the terminator
C12_Witness ==
    /\ call.name = "Write"
    /\ wopts.Quoting = QuoteMinimal
    /\ call.arg = <<<<<<"a">>, EmptyString>>>>
    /\ Emitted = <<"a", wopts.Delimiter>> \o wopts.LineTerminator

---------------------------------------------------------------------------
(* C13 *)

\* The record written with every field encoded by enc
FramedBy(d, record, enc(_)) ==
    Join([n \in 1..Len(record) |-> enc(record[n])], <<d.Delimiter>>) \o d.LineTerminator

\* field between quotes, each quote or escape character in it after one escape
\* character
EscapeQuoted(d, field) ==
    <<d.QuoteChar>>
        \o Flatten([i \in 1..Len(field) |->
                       IF field[i] \in {d.QuoteChar, d.EscapeChar}
                       THEN <<d.EscapeChar, field[i]>> ELSE <<field[i]>>])
        \o <<d.QuoteChar>>

\* C13: under NoDoubleQuote a quoted field is written as the opening quote, each
\* character in order with one escape character before every quote or escape
\* character (none doubled), and the closing quote.
C13_EscapeCharWriting ==
    (call.name = "Write" /\ wopts.DoubleQuote = NoDoubleQuote)
        => Emitted = FramedBy(wopts, call.arg[1],
                              LAMBDA f : IF fieldNeedsQuote(wopts, f)
                                         THEN EscapeQuoted(wopts, f) ELSE f)

\* A field that is the quote character, written quoted under NoDoubleQuote:
\* quote, escape, quote, quote
C13_Witness ==
    /\ call.name = "Write"
    /\ wopts.DoubleQuote = NoDoubleQuote
    /\ call.arg = <<<<<<wopts.QuoteChar>>>>>>
    /\ fieldNeedsQuote(wopts, <<wopts.QuoteChar>>)
    /\ Emitted = <<wopts.QuoteChar, wopts.EscapeChar, wopts.QuoteChar, wopts.QuoteChar>>
                     \o wopts.LineTerminator

---------------------------------------------------------------------------
(* C14 *)

\* field between quotes, each quote or escape character in it after a quote
\* character
QuoteBefore(d, field) ==
    <<d.QuoteChar>>
        \o Flatten([i \in 1..Len(field) |->
                       IF field[i] \in {d.QuoteChar, d.EscapeChar}
                       THEN <<d.QuoteChar, field[i]>> ELSE <<field[i]>>])
        \o <<d.QuoteChar>>

\* field between quotes, each quote or escape character in it written twice
\* (the escape character is doubled by itself, not by a quote)
Doubled(d, field) ==
    <<d.QuoteChar>>
        \o Flatten([i \in 1..Len(field) |->
                       IF field[i] \in {d.QuoteChar, d.EscapeChar}
                       THEN <<field[i], field[i]>> ELSE <<field[i]>>])
        \o <<d.QuoteChar>>

---------------------------------------------------------------------------
(* C15 *)

\* What Write called for each record in order hands to the bufio.Writer
RECURSIVE WriteEach(_, _)
WriteEach(d, records) ==
    IF records = <<>> THEN <<>> ELSE Write(d, Head(records)) \o WriteEach(d, Tail(records))

\* C15: WriteAll leaves the sink and the buffer as Write for each record in
\* order and then Flush leave them: everything written before, then the bytes
\* of each Write, all in the sink and nothing buffered.
C15_WriteAllIsWritesThenFlush ==
    call.name = "WriteAll"
        => /\ w = <<>>
           /\ b = SubSeq(b, 1, call.from) \o WriteEach(wopts, call.arg)

\* WriteAll of two different records
C15_Witness ==
    /\ call.name = "WriteAll"
    /\ Len(call.arg) = 2
    /\ call.arg[1] # call.arg[2]
    /\ w = <<>>
    /\ b = Write(wopts, call.arg[1]) \o Write(wopts, call.arg[2])

---------------------------------------------------------------------------
(* C16 *)

\* C16: a Flush that follows a Flush leaves the sink as it was, without error;
\* a Flush that follows a Write made with nothing buffered appends exactly the
\* bytes of that record to the sink.
C16_FlushIdempotent ==
    [][/\ (call.name = "Flush" /\ call'.name = "Flush")
            => (b' = b /\ w' = <<>> /\ call'.err = "nil")
       /\ (call.name = "Write" /\ call.from = Len(b) /\ call'.name = "Flush")
            => (b' = b \o Write(wopts, call.arg[1]) /\ call'.err = "nil")]_vars

\* A Flush after a Flush, with bytes in the sink
C16_Witness ==
    /\ call.name = "Flush"
    /\ call.ok
    /\ b # <<>>
    /\ call.from = Len(b)

---------------------------------------------------------------------------
(* C17 *)

\* Index of the first line terminator in text; 0 when there is none
FirstTerminator(d, text) ==
    LET at == {i \in 1..Len(text) : OccursAt(text, d.LineTerminator, i)}
    IN  IF at = {} THEN 0 ELSE CHOOSE i \in at : \A j \in at : i <= j

\* The lines of text, each ended by the line terminator: for each its text, the
\* offset it starts at and the offset the next one starts at.  What follows the
\* last terminator is no line.
RECURSIVE LinesFrom(_, _, _)
LinesFrom(d, text, off) ==
    LET i == FirstTerminator(d, text)
        next == i + Len(d.LineTerminator)
    IN  IF i = 0 THEN <<>>
        ELSE <<[text |-> SubSeq(text, 1, i - 1), start |-> off, next |-> off + next - 1]>>
                 \o LinesFrom(d, SubSeq(text, next, Len(text)), off + next - 1)

\* text is records of unquoted fields, each ended by the line terminator, none
\* of them a comment line
TerminatedRecords(d, text) ==
    LET lines == LinesFrom(d, text, 0)
    IN  /\ \A i \in 1..Len(text) : text[i] # d.QuoteChar
        /\ IF lines = <<>> THEN text = <<>> ELSE lines[Len(lines)].next = Len(text)
        /\ \A k \in 1..Len(lines) :
               ~\E i \in 1..Len(lines[k].text) :
                   /\ lines[k].text[i] = d.Comment
                   /\ \A j \in 1..(i - 1) : lines[k].text[j] \in Space

\* C17 (as claimed): on a text of N records each ended by the line terminator, a Read starts
\* at a record or at the end of the text; at the k-th record it returns that
\* record's fields without error and leaves the Reader at the next record; at
\* the end of the text it returns no field and EOF, and the Reader stays there.
C17_ReadsThenEOF ==
    (call.name = "Read" /\ TerminatedRecords(ropts, b))
        => LET lines == LinesFrom(ropts, b, 0)
           IN  \/ \E k \in 1..Len(lines) :
                      /\ call.from = lines[k].start
                      /\ call.err = "nil"
                      /\ call.record = SplitAt(lines[k].text, ropts.Delimiter, <<>>)
                      /\ pos = lines[k].next
               \/ /\ call.from = Len(b)
                  /\ call.err = "EOF"
                  /\ call.record = <<>>
                  /\ pos = Len(b)

---------------------------------------------------------------------------
(* C18 *)

\* text starts with unquoted fields, then a delimiter at index k directly before
\* the first line terminator; the line is no comment line
UnquotedThenDelimiter(d, text, k) ==
    /\ k \in 1..Len(text)
    /\ text[k] = d.Delimiter
    /\ OccursAt(text, d.LineTerminator, k + 1)
    /\ \A i \in 1..k : text[i] # d.QuoteChar /\ ~OccursAt(text, d.LineTerminator, i)
    /\ ~\E i \in 1..k : text[i] = d.Comment /\ \A j \in 1..(i - 1) : text[j] \in Space

\* text starts with one quoted field without quote or escape character in it,
\* then a delimiter at index k directly before a line terminator
QuotedThenDelimiter(d, text, k) ==
    /\ k \in 3..Len(text)
    /\ text[k] = d.Delimiter
    /\ OccursAt(text, d.LineTerminator, k + 1)
    /\ text[1] = d.QuoteChar
    /\ text[k - 1] = d.QuoteChar
    /\ \A i \in 2..(k - 2) : text[i] \notin {d.QuoteChar, d.EscapeChar}

\* C18 (as claimed): a Read that starts at a line ending in a delimiter directly
\* before the line terminator returns, without error, the fields before that
\* delimiter and one more, empty, field, whether those fields are unquoted or
\* quoted, and leaves the Reader right after the terminator.
C18_TrailingEmptyField ==
    (call.name = "Read" /\ AtLineStart)
        => \A k \in 1..Len(TextFrom) :
               /\ UnquotedThenDelimiter(ropts, TextFrom, k)
                    => /\ call.err = "nil"
                       /\ pos = call.from + k + Len(ropts.LineTerminator)
                       /\ call.record = Append(SplitAt(SubSeq(TextFrom, 1, k - 1),
                                                       ropts.Delimiter, <<>>), EmptyString)
               /\ QuotedThenDelimiter(ropts, TextFrom, k)
                    => /\ call.err = "nil"
                       /\ pos = call.from + k + Len(ropts.LineTerminator)
                       /\ call.record = <<SubSeq(TextFrom, 2, k - 2), EmptyString>>

---------------------------------------------------------------------------
(* C19 *)

\* text opens a quoted field that is never closed
UnclosedQuote(d, text) ==
    /\ text # <<>>
    /\ Head(text) = d.QuoteChar
    /\ \A i \in 2..Len(text) : text[i] # d.QuoteChar

\* C19 (as claimed): when the source ends inside an opened quoted field, Read
\* returns the field scanned so far with an error that is not EOF, and ReadAll
\* reports an error.
C19_EOFInQuotedField ==
    (call.name \in {"Read", "ReadAll"} /\ AtLineStart /\ UnclosedQuote(ropts, TextFrom))
        => /\ call.err \notin {"nil", "EOF"}
           /\ call.name = "Read" => call.record = <<Tail(TextFrom)>>

---------------------------------------------------------------------------
(* C20 *)

\* The records successive Read calls return without error from r on
RECURSIVE ReadsBeforeError(_, _)
ReadsBeforeError(d, r) ==
    LET rd == Read(d, r)
    IN  IF rd.err = "nil" THEN <<rd.record>> \o ReadsBeforeError(d, rd.r) ELSE <<>>

\* C20 (as claimed): when the source fails, ReadAll returns the error with the
\* records read before it, and Read returns the error with the fields scanned
\* before it.
C20_PartialResultOnError ==
    /\ (call.name = "ReadAll" /\ call.err = ErrIO)
            => call.rows = ReadsBeforeError(ropts, TextFrom)
    /\ (/\ call.name = "Read"
        /\ call.err = ErrIO
        /\ AtLineStart
        /\ UnterminatedPlain(ropts, SubSeq(TextFrom, 1, Avail(TextFrom))))
            => call.record = SplitAt(SubSeq(TextFrom, 1, Avail(TextFrom)), ropts.Delimiter, <<>>)

---------------------------------------------------------------------------
(* C21 *)

\* p is a prefix of s
IsPrefix(p, s) == Len(p) <= Len(s) /\ SubSeq(s, 1, Len(p)) = p

\* C21: a Write or WriteAll emits the bytes of its records in order, on top of
\* what was emitted before.  When a delivery to the sink fails during the call,
\* the call returns that error and nothing is emitted after the failed
\* delivery: the buffer holds exactly what the sink refused, so a Write stops
\* short of its record and a WriteAll writes no later record.  Nothing
\* delivered or buffered before is taken back, and a call that returns no
\* error has emitted all its bytes.
C21_WriteFailsFast ==
    [][call'.name \in {"Write", "WriteAll"} =>
         \A all \in {b \o w \o (IF call'.name = "Write" THEN Write(wopts, call'.arg[1])
                                  ELSE WriteAll(wopts, call'.arg))} :
         \A out \in {b' \o w'} :
             /\ IsPrefix(b, b')
             /\ IsPrefix(b \o w, out)
             /\ IsPrefix(out, all)
             /\ (~sink.failed /\ sink'.failed)
                    => (call'.err = ErrIO /\ Len(w') = sink'.refused)
             /\ (call'.name = "Write" /\ call'.err # "nil") => out # all
             /\ call'.err = "nil" => out = all]_vars

\* A Write that failed after emitting a part of its record
C21_Witness ==
    /\ call.name = "Write"
    /\ call.err = ErrIO
    /\ sink.failed
    /\ Len(b) + Len(w) > call.from

---------------------------------------------------------------------------
(* C22 *)

---------------------------------------------------------------------------
(* C23 *)

\* C23 (as claimed): for every dialect and every input, Read and ReadAll end
\* without a panic, and a Read that returns no error has consumed input.
C23_ReadTerminates ==
    call.name \in {"Read", "ReadAll"}
        => /\ call.err # "panic"
           /\ (call.name = "Read" /\ call.err = "nil") => pos > call.from

---------------------------------------------------------------------------
(* C24 *)

\* pre holds plain unquoted fields, each followed by the delimiter
PlainFields(d, pre) ==
    /\ \A i \in 1..Len(pre) : pre[i] \in {"a", d.Delimiter}
    /\ pre # <<>> => Last(pre) = d.Delimiter

\* text is pre, then a quoted field holding body, then at index k a character
\* that starts neither the delimiter nor the line terminator nor, where quotes
\* are doubled, a second quote
QuotedThenOther(d, text, pre, body, k) ==
    /\ PlainFields(d, pre)
    /\ k = Len(pre) + Len(body) + 3
    /\ k <= Len(text)
    /\ SubSeq(text, 1, k - 1) = pre \o <<d.QuoteChar>> \o body \o <<d.QuoteChar>>
    /\ \A i \in 1..Len(body) : body[i] \notin {d.QuoteChar, d.EscapeChar}
    /\ text[k] \notin {d.Delimiter, d.QuoteChar}
    /\ ~OccursAt(text, d.LineTerminator, k)

\* C24: when a character that starts neither the delimiter nor the terminator
\* follows the closing quote of a field, Read returns the fields scanned so
\* far, that field the last, and has consumed the input up to that character
\* and not the character: the next Read starts there.
C24_TrailingContentKept ==
    call.name = "Read" =>
        \A n \in 0..(Len(TextFrom) - 3) : \A m \in 0..(Len(TextFrom) - 3 - n) :
            LET pre == SubSeq(TextFrom, 1, n)
                body == SubSeq(TextFrom, n + 2, n + 1 + m)
                k == n + m + 3
            IN  QuotedThenOther(ropts, TextFrom, pre, body, k)
                    => /\ call.record = SubSeq(SplitAt(pre, ropts.Delimiter, <<>>), 1,
                                               Len(SplitAt(pre, ropts.Delimiter, <<>>)) - 1)
                                            \o <<body>>
                       /\ pos = call.from + k - 1

\* A Read that stopped at a character after a closing quote, with input left
C24_Witness ==
    /\ call.name = "Read"
    /\ call.err = "nil"
    /\ pos < Len(b)
    /\ pos >= 3
    /\ b[pos] = ropts.QuoteChar
    /\ b[pos + 1] = "a"
    /\ QuotedThenOther(ropts, TextFrom, <<>>, SubSeq(TextFrom, 2, pos - call.from - 1),
                       pos - call.from + 1)

---------------------------------------------------------------------------
(* C25 *)

\* Every maximal run of the character q in inner has an even length
QuotesPaired(q, inner) ==
    \A i \in 1..Len(inner) :
        (inner[i] = q /\ (i = Len(inner) \/ inner[i + 1] # q))
            => Cardinality({j \in 1..i : \A t \in j..i : inner[t] = q}) % 2 = 0

\* inner with every two consecutive characters q replaced by one
RECURSIVE HalveQuotes(_, _)
HalveQuotes(q, inner) ==
    IF inner = <<>> THEN <<>>
    ELSE IF Len(inner) >= 2 /\ inner[1] = q /\ inner[2] = q
    THEN <<q>> \o HalveQuotes(q, SubSeq(inner, 3, Len(inner)))
    ELSE <<inner[1]>> \o HalveQuotes(q, Tail(inner))

\* Index of the quote that closes the quoted field text opens with, where quotes
\* are doubled: the first quote after paired quotes only that no quote follows;
\* 0 when there is none
ClosingQuote(q, text) ==
    LET ks == {k \in 2..Len(text) :
                  /\ text[k] = q
                  /\ k = Len(text) \/ text[k + 1] # q
                  /\ QuotesPaired(q, SubSeq(text, 2, k - 1))}
    IN  IF ks = {} THEN 0 ELSE CHOOSE k \in ks : \A j \in ks : k <= j

---------------------------------------------------------------------------
(* C26 *)

\* The characters a byte string encodes
RECURSIVE Runes(_)
Runes(bs) ==
    IF bs = <<>> THEN <<>>
    ELSE IF Len(bs) >= 2 /\ bs[1] = WideLead /\ bs[2] = WideCont
    THEN <<Wide>> \o Runes(SubSeq(bs, 3, Len(bs)))
    ELSE <<bs[1]>> \o Runes(Tail(bs))

\* The characters inner without each escape character that a quote character
\* follows directly
RECURSIVE Unescape(_, _)
Unescape(d, inner) ==
    IF inner = <<>> THEN <<>>
    ELSE IF Len(inner) >= 2 /\ inner[1] = d.EscapeChar /\ inner[2] = d.QuoteChar
    THEN <<d.QuoteChar>> \o Unescape(d, SubSeq(inner, 3, Len(inner)))
    ELSE <<inner[1]>> \o Unescape(d, Tail(inner))

\* Index of the quote that closes the quoted field the characters text open
\* with, in EscapeChar mode: the first quote that the escape character does
\* not precede; 0 when there is none
ClosingUnescaped(d, text) ==
    LET ks == {k \in 2..Len(text) :
                  text[k] = d.QuoteChar /\ (k = 2 \/ text[k - 1] # d.EscapeChar)}
    IN  IF ks = {} THEN 0 ELSE CHOOSE k \in ks : \A j \in ks : k <= j

\* C26 (as claimed): in EscapeChar mode the scan of a quoted field ends at the
\* first quote that does not follow the escape character and returns what
\* stands before it, every character as it is but each escape character before
\* a quote removed, whatever the byte lengths of the two characters; a quote
\* directly after the opening quote ends the field as empty.  Without such a
\* quote it returns the same of the whole rest, with EOF.
C26_EscapeCharScan ==
    (/\ call.name = "readField"
     /\ call.arg = "readQuotedField"
     /\ ropts.DoubleQuote = NoDoubleQuote)
        => LET text == Runes(TextFrom)
               k == ClosingUnescaped(ropts, text)
           IN  IF k = 0
               THEN /\ call.record = <<Encode(Unescape(ropts, Tail(text)))>>
                    /\ call.err = "EOF"
                    /\ pos = Len(b)
               ELSE /\ call.record = <<Encode(Unescape(ropts, SubSeq(text, 2, k - 1)))>>
                    /\ call.err = "nil"
                    /\ pos = call.from + Len(Encode(SubSeq(text, 1, k)))

---------------------------------------------------------------------------
(* C27 *)

\* C27 (as claimed): in EscapeChar mode the scan of a quoted field reads back
\* what the Writer wrote for a field: the escape character before a quote or an
\* escape character is removed, and the quote after the last character closes
\* the field, also when that character is an escaped escape character.
C27_EscapedEscapeReadBack ==
    (/\ call.name = "readField"
     /\ call.arg = "readQuotedField"
     /\ ropts.DoubleQuote = NoDoubleQuote)
        => \A field \in Strings(Alphabet(ropts), MaxLen - 2) :
               IsPrefix(writeQuoted(ropts, field), TextFrom)
                   => /\ call.record = <<Encode(field)>>
                      /\ call.err = "nil"
                      /\ pos = call.from + Len(writeQuoted(ropts, field))

---------------------------------------------------------------------------
(* C28 *)

\* Index in text where the scan of an unquoted field that starts at index 1
\* must stop: the first index that holds the delimiter or, after the first
\* character, starts the whole line terminator; past the end when there is none
UnquotedStop(d, text) ==
    LET stops == {i \in 1..Len(text) :
                     \/ text[i] = d.Delimiter
                     \/ i > 1 /\ OccursAt(text, d.LineTerminator, i)}
    IN  IF stops = {} THEN Len(text) + 1
        ELSE CHOOSE i \in stops : \A j \in stops : i <= j

\* C28: the scan of an unquoted field returns the input up to the first
\* delimiter, whole line terminator or end of input, and consumes neither of
\* them; characters that start the terminator without completing it are field
\* content.  At the end of input it returns EOF.
C28_UnquotedScan ==
    (call.name = "readField" /\ call.arg = "readUnquotedField")
        => LET stop == UnquotedStop(ropts, TextFrom)
           IN  /\ call.record = <<SubSeq(TextFrom, 1, stop - 1)>>
               /\ pos = call.from + stop - 1
               /\ call.err = (IF stop = Len(TextFrom) + 1 THEN "EOF" ELSE "nil")

\* An unquoted field that holds the first character of a two-character
\* terminator was scanned up to a delimiter
C28_Witness ==
    /\ call.name = "readField"
    /\ call.arg = "readUnquotedField"
    /\ Len(ropts.LineTerminator) = 2
    /\ call.record = <<<<Head(ropts.LineTerminator)>>>>
    /\ call.err = "nil"
    /\ pos < Len(b)
    /\ b[pos + 1] = ropts.Delimiter

---------------------------------------------------------------------------
(* C29 *)

\* The characters that successive calls of unReader.ReadRune return, up to
\* the first error
RECURSIVE Upcoming(_)
Upcoming(un) ==
    LET rr == unReaderReadRune(un)
    IN  IF rr.err # "nil" THEN <<>> ELSE <<rr.char>> \o Upcoming(rr.u)

\* The characters that successive calls of the Reader's ReadRune return
RECURSIVE UpcomingRunes(_)
UpcomingRunes(r) ==
    LET rr == ReadRune(r)
    IN  IF rr.err # "nil" THEN <<>> ELSE <<rr.char>> \o UpcomingRunes(rr.r)

\* C29: a lookahead, whatever it answers, leaves the characters that the reads
\* after it return as they were, and a repeated lookahead answers the same; a
\* character put back with UnreadRune is the next character read, before the
\* characters that were upcoming, and the next lookahead sees it.
C29_LookaheadKeepsInput ==
    [][/\ call'.name \in {"nextIsLineTerminator", "nextIsDelimiter"}
           => /\ UpcomingRunes(Rest') = UpcomingRunes(Rest)
              /\ call'.name = "nextIsLineTerminator"
                     => nextIsLineTerminator(ropts', Rest').ok = call'.ok
              /\ call'.name = "nextIsDelimiter"
                     => nextIsDelimiter(ropts', Rest').ok = call'.ok
       /\ call'.name = "unReader.NextIsString"
           => /\ Upcoming(UnReader') = Upcoming(UnReader)
              /\ NextIsString(UnReader', call'.arg).ok = call'.ok
       /\ call'.name = "unReader.UnreadRune"
           => /\ Upcoming(UnReader') = <<call'.arg>> \o Upcoming(UnReader)
              /\ unReaderReadRune(UnReader').char = call'.arg
              /\ NextIsString(UnReader', Utf8(call'.arg)).ok]_vars

\* A lookahead has answered no with characters read ahead into the buffer,
\* behind a character that was put back
C29_Witness ==
    /\ call.name = "unReader.NextIsString"
    /\ ~call.ok
    /\ call.err = "nil"
    /\ call.arg = CRLF
    /\ Len(u.b) = 3
    /\ u.r > 0
    /\ Upcoming(UnReader)[1] = "a"
    /\ Upcoming(UnReader)[2] = Wide

---------------------------------------------------------------------------
(* C30 *)

====
